---- MODULE Spec2Model ----
(***************************************************************************)
(* Model of ScreenConfigWidget (screenconfiglayout.h): the Monitor and its *)
(* four Borders, the Screen (the "Wall": monitor list, selection, snap),   *)
(* the ScreenDisplayWidget (interaction mode, pointer handlers, border     *)
(* accumulators mBorders) and the ScreenConfigLayout shell (buttons, text  *)
(* inputs, slots).                                                         *)
(*                                                                         *)
(* Conventions.                                                            *)
(*  - A size_t value is represented by its two's-complement signed         *)
(*    reading: +, - and the conversions int <-> size_t are then plain      *)
(*    integer arithmetic, and a value that wrapped around below zero is    *)
(*    exactly a negative representative (see Wrapped).                     *)
(*  - A pointer to a Monitor (a std::list node) is the node's address, a   *)
(*    number in Addr; NULL is 0.  A node freed by deleteMonitor gives its  *)
(*    address back to the allocator, which may hand it out again.          *)
(*  - A Border* is the pair of its Monitor's address and the border index. *)
(*  - An uninitialized pointer is Indeterminate until it is written; a     *)
(*    read of it may give any address or NULL.                             *)
(*  - A QString is a sequence of characters; the text of a number input is *)
(*    the numeral it shows.                                                *)
(*  - Spec is the Wall used through its public operations; SpecSnap is    *)
(*    the Wall with Monitors of several shapes, offsets and letterbox      *)
(*    sizes, placed and dragged; SpecUI is the whole program driven by     *)
(*    buttons, text edits and pointer events.                              *)
(***************************************************************************)
EXTENDS Integers, Sequences, FiniteSets, TLC

(***************************************************************************)
(* Bounds of the model.                                                    *)
(***************************************************************************)
MaxMonitors == 2        \* monitors in mMonitorList at a time
MaxBorders == 2         \* longest accumulator mBorders[i]
MaxEdits == 1           \* direct calls of Monitor setters in a run
MaxDrags == 2           \* drag steps (calls of moveMonitors on a monitor) in a run
MaxInputs == 4          \* edits, drag steps and handled clicks in a run, together

(***************************************************************************)
(* Program constants.                                                      *)
(***************************************************************************)
BORDER_WIDTH == 16
ScaleDen == 10          \* mScale = 1.0 / 10.0
ThresholdDen == 20      \* .05 * masterBounding.width() = width / 20
NULL == 0

\* an uninitialized pointer, before its first read or write
Indeterminate == 0 - 1

\* the list-node addresses the allocator hands out
Addr == 1..MaxMonitors

BOTTOM == 0
RIGHT == 1
TOP == 2
LEFT == 3
BorderIndex == {BOTTOM, RIGHT, TOP, LEFT}

InteractionMode ==
    <<"First_INVALID", "ConfigureMonitors", "SelectBottomBorder", "SelectRightBorder",
      "SelectTopBorder", "SelectLeftBorder", "Last_INVALID">>

ModeIndex(m) == CHOOSE i \in 1..Len(InteractionMode) : InteractionMode[i] = m

lightGray == "lightGray"

(***************************************************************************)
(* QPoint, QSize, QRect (Qt 5).  A QRect is stored as Qt stores it, by its *)
(* corners x1, y1, x2, y2, with x2 = x1 + width - 1.                       *)
(***************************************************************************)
QPoint(x, y) == [x |-> x, y |-> y]

\* qRound(v * (1.0 / den)): round half up, for den = 1 (scale 1) and den = 10
qRoundScaled(v, den) == (2 * v + den) \div (2 * den)

QRectFromPointSize(p, w, h) == [x1 |-> p.x, y1 |-> p.y, x2 |-> p.x + w - 1, y2 |-> p.y + h - 1]

QRectFromPoints(tl, br) == [x1 |-> tl.x, y1 |-> tl.y, x2 |-> br.x, y2 |-> br.y]

NullRect == [x1 |-> 0, y1 |-> 0, x2 |-> -1, y2 |-> -1]

RectWidth(r) == r.x2 - r.x1 + 1

RectHeight(r) == r.y2 - r.y1 + 1

RectTopLeft(r) == QPoint(r.x1, r.y1)

RectBottomRight(r) == QPoint(r.x2, r.y2)

RectSetWidth(r, w) == [r EXCEPT !.x2 = r.x1 + w - 1]

RectSetHeight(r, h) == [r EXCEPT !.y2 = r.y1 + h - 1]

RectIsNull(r) == r.x2 = r.x1 - 1 /\ r.y2 = r.y1 - 1

RectContains(r, p) ==
    LET l == IF r.x2 < r.x1 - 1 THEN r.x2 ELSE r.x1
        rr == IF r.x2 < r.x1 - 1 THEN r.x1 ELSE r.x2
        t == IF r.y2 < r.y1 - 1 THEN r.y2 ELSE r.y1
        b == IF r.y2 < r.y1 - 1 THEN r.y1 ELSE r.y2
    IN  ~(p.x < l \/ p.x > rr) /\ ~(p.y < t \/ p.y > b)

RectMoveTo(r, p) ==
    [x1 |-> p.x, y1 |-> p.y, x2 |-> r.x2 + (p.x - r.x1), y2 |-> r.y2 + (p.y - r.y1)]

RectMoveLeft(r, pos) == [r EXCEPT !.x2 = r.x2 + (pos - r.x1), !.x1 = pos]

RectMoveTop(r, pos) == [r EXCEPT !.y2 = r.y2 + (pos - r.y1), !.y1 = pos]

RectMoveRight(r, pos) == [r EXCEPT !.x1 = r.x1 + (pos - r.x2), !.x2 = pos]

RectMoveBottom(r, pos) == [r EXCEPT !.y1 = r.y1 + (pos - r.y2), !.y2 = pos]

RectAdjusted(r, dx1, dy1, dx2, dy2) ==
    [x1 |-> r.x1 + dx1, y1 |-> r.y1 + dy1, x2 |-> r.x2 + dx2, y2 |-> r.y2 + dy2]

Max2(a, b) == IF a > b THEN a ELSE b

Min2(a, b) == IF a < b THEN a ELSE b

\* the extent [l, r] of a rect along one axis, flipped when the size is negative
SpanLo(a1, a2) == IF a2 - a1 + 1 < 0 THEN a2 ELSE a1

SpanHi(a1, a2) == IF a2 - a1 + 1 < 0 THEN a1 ELSE a2

RectIntersects(a, b) ==
    /\ ~RectIsNull(a)
    /\ ~RectIsNull(b)
    /\ ~(SpanLo(a.x1, a.x2) > SpanHi(b.x1, b.x2) \/ SpanLo(b.x1, b.x2) > SpanHi(a.x1, a.x2))
    /\ ~(SpanLo(a.y1, a.y2) > SpanHi(b.y1, b.y2) \/ SpanLo(b.y1, b.y2) > SpanHi(a.y1, a.y2))

RectIntersected(a, b) ==
    IF ~RectIntersects(a, b) THEN NullRect
    ELSE [x1 |-> Max2(SpanLo(a.x1, a.x2), SpanLo(b.x1, b.x2)),
          x2 |-> Min2(SpanHi(a.x1, a.x2), SpanHi(b.x1, b.x2)),
          y1 |-> Max2(SpanLo(a.y1, a.y2), SpanLo(b.y1, b.y2)),
          y2 |-> Min2(SpanHi(a.y1, a.y2), SpanHi(b.y1, b.y2))]

\* double -> int conversion of a quotient n / d (d > 0): truncation toward zero
TruncDiv(n, d) == IF n >= 0 THEN n \div d ELSE -((-n) \div d)

(***************************************************************************)
(* Dimensions<size_t> (Geometry) and Border.                               *)
(***************************************************************************)
Geometry(w, h, xOff, yOff) == [width |-> w, height |-> h, xOffset |-> xOff, yOffset |-> yOff]

\* a size_t that wrapped around below zero
Wrapped(v) == v < 0

GeometryQRect(g, den) ==
    QRectFromPointSize(QPoint(qRoundScaled(g.xOffset, den), qRoundScaled(g.yOffset, den)),
                       qRoundScaled(g.width, den), qRoundScaled(g.height, den))

Border(g) == [geometry |-> g, drawColor |-> lightGray]

BorderQRect(b, den) ==
    LET r == GeometryQRect(b.geometry, den)
        r1 == IF RectWidth(r) < 2 THEN RectSetWidth(r, 2) ELSE r
    IN  IF RectHeight(r1) < 2 THEN RectSetHeight(r1, 2) ELSE r1

(***************************************************************************)
(* Monitor.                                                                *)
(***************************************************************************)
\* a faulty updateGeometry: the top edge starts below the corner, as the left
\* edge does
UpdateGeometryTopBelowCorner(m) ==
    [m EXCEPT
       !.left.geometry = Geometry(
            BORDER_WIDTH,
            m.mHeight - 2 * BORDER_WIDTH - (2 * m.mHorizontalLetterboxBarHeight),
            m.mVerticalLetterboxBarWidth + m.mXOffset + 0,
            m.mHorizontalLetterboxBarHeight + m.mYOffset + BORDER_WIDTH),
       !.right.geometry = Geometry(
            BORDER_WIDTH,
            m.mHeight - 2 * BORDER_WIDTH - (2 * m.mHorizontalLetterboxBarHeight),
            (-m.mVerticalLetterboxBarWidth) + m.mXOffset + m.mWidth - BORDER_WIDTH,
            m.mHorizontalLetterboxBarHeight + m.mYOffset + BORDER_WIDTH),
       !.top.geometry = Geometry(
            m.mWidth - (2 * m.mVerticalLetterboxBarWidth),
            BORDER_WIDTH,
            m.mVerticalLetterboxBarWidth + m.mXOffset + 0,
            m.mHorizontalLetterboxBarHeight + m.mYOffset + BORDER_WIDTH),
       !.bottom.geometry = Geometry(
            m.mWidth - (2 * m.mVerticalLetterboxBarWidth),
            BORDER_WIDTH,
            m.mVerticalLetterboxBarWidth + m.mXOffset + 0,
            (-m.mHorizontalLetterboxBarHeight) + m.mYOffset + m.mHeight - BORDER_WIDTH)]

\* a faulty updateGeometry: each edge is assigned a new Border, not only its
\* geometry
UpdateGeometryResettingBorders(m) ==
    [m EXCEPT
       !.left = Border(Geometry(
            BORDER_WIDTH,
            m.mHeight - 2 * BORDER_WIDTH - (2 * m.mHorizontalLetterboxBarHeight),
            m.mVerticalLetterboxBarWidth + m.mXOffset + 0,
            m.mHorizontalLetterboxBarHeight + m.mYOffset + BORDER_WIDTH)),
       !.right = Border(Geometry(
            BORDER_WIDTH,
            m.mHeight - 2 * BORDER_WIDTH - (2 * m.mHorizontalLetterboxBarHeight),
            (-m.mVerticalLetterboxBarWidth) + m.mXOffset + m.mWidth - BORDER_WIDTH,
            m.mHorizontalLetterboxBarHeight + m.mYOffset + BORDER_WIDTH)),
       !.top = Border(Geometry(
            m.mWidth - (2 * m.mVerticalLetterboxBarWidth),
            BORDER_WIDTH,
            m.mVerticalLetterboxBarWidth + m.mXOffset + 0,
            m.mHorizontalLetterboxBarHeight + m.mYOffset + 0)),
       !.bottom = Border(Geometry(
            m.mWidth - (2 * m.mVerticalLetterboxBarWidth),
            BORDER_WIDTH,
            m.mVerticalLetterboxBarWidth + m.mXOffset + 0,
            (-m.mHorizontalLetterboxBarHeight) + m.mYOffset + m.mHeight - BORDER_WIDTH))]

updateGeometry(m) ==
    [m EXCEPT
       !.left.geometry = Geometry(
            BORDER_WIDTH,
            m.mHeight - 2 * BORDER_WIDTH - (2 * m.mHorizontalLetterboxBarHeight),
            m.mVerticalLetterboxBarWidth + m.mXOffset + 0,
            m.mHorizontalLetterboxBarHeight + m.mYOffset + BORDER_WIDTH),
       !.right.geometry = Geometry(
            BORDER_WIDTH,
            m.mHeight - 2 * BORDER_WIDTH - (2 * m.mHorizontalLetterboxBarHeight),
            (-m.mVerticalLetterboxBarWidth) + m.mXOffset + m.mWidth - BORDER_WIDTH,
            m.mHorizontalLetterboxBarHeight + m.mYOffset + BORDER_WIDTH),
       !.top.geometry = Geometry(
            m.mWidth - (2 * m.mVerticalLetterboxBarWidth),
            BORDER_WIDTH,
            m.mVerticalLetterboxBarWidth + m.mXOffset + 0,
            m.mHorizontalLetterboxBarHeight + m.mYOffset + 0),
       !.bottom.geometry = Geometry(
            m.mWidth - (2 * m.mVerticalLetterboxBarWidth),
            BORDER_WIDTH,
            m.mVerticalLetterboxBarWidth + m.mXOffset + 0,
            (-m.mHorizontalLetterboxBarHeight) + m.mYOffset + m.mHeight - BORDER_WIDTH)]

\* Monitor::Monitor, for the list node allocated at address addr
Monitor(addr, name, width, height, xOffset, yOffset, letterboxOffsetX, letterboxOffsetY) ==
    updateGeometry(
        [addr |-> addr, mName |-> name,
         mWidth |-> width, mHeight |-> height,
         mXOffset |-> xOffset, mYOffset |-> yOffset,
         mVerticalLetterboxBarWidth |-> letterboxOffsetX,
         mHorizontalLetterboxBarHeight |-> letterboxOffsetY,
         bottom |-> Border(Geometry(0, 0, 0, 0)), right |-> Border(Geometry(0, 0, 0, 0)),
         top |-> Border(Geometry(0, 0, 0, 0)), left |-> Border(Geometry(0, 0, 0, 0))])

\* Monitor::operator[]
MonitorBorder(m, i) ==
    CASE i = 0 -> m.bottom
      [] i = 1 -> m.right
      [] i = 2 -> m.top
      [] i = 3 -> m.left

boundingRectangle(m, den) ==
    QRectFromPoints(RectTopLeft(BorderQRect(m.top, den)),
                    RectBottomRight(BorderQRect(m.bottom, den)))

\* a faulty setter: the edge geometries are left as they were
SetWidthKeepingGeometry(m, v) == [m EXCEPT !.mWidth = v]

setWidth(m, v) == updateGeometry([m EXCEPT !.mWidth = v])

setHeight(m, v) == updateGeometry([m EXCEPT !.mHeight = v])

setXOffset(m, v) == updateGeometry([m EXCEPT !.mXOffset = v])

setYOffset(m, v) == updateGeometry([m EXCEPT !.mYOffset = v])

setVerticalLetterboxBarWidth(m, v) == updateGeometry([m EXCEPT !.mVerticalLetterboxBarWidth = v])

setHorizontalLetterboxBarHeight(m, v) ==
    updateGeometry([m EXCEPT !.mHorizontalLetterboxBarHeight = v])

move(m, delta) ==
    LET m1 == setXOffset(m, m.mXOffset + delta.x)
    IN  setYOffset(m1, m1.mYOffset + delta.y)

setPosition(m, targetPosition) ==
    LET tl == RectTopLeft(boundingRectangle(m, 1))
    IN  move(m, QPoint(targetPosition.x - tl.x, targetPosition.y - tl.y))

(***************************************************************************)
(* Screen: the monitor list (a sequence, in std::list order) and the       *)
(* current selection.  The methods are operators from the Screen's state   *)
(* to its next state and the returned value.                               *)
(***************************************************************************)
LiveAddrs(list) == {list[i].addr : i \in 1..Len(list)}

\* the list position of the node at address a (a is the address of a live node)
IndexOfAddr(list, a) == CHOOSE i \in 1..Len(list) : list[i].addr = a

Deref(list, a) == list[IndexOfAddr(list, a)]

monitorExists(list, name) == \E i \in 1..Len(list) : list[i].mName = name

\* Screen::getMonitor(const QString&): the first monitor of that name, or nullptr
getMonitorByName(list, name) ==
    IF \E i \in 1..Len(list) : list[i].mName = name
    THEN list[CHOOSE i \in 1..Len(list) :
                /\ list[i].mName = name
                /\ \A j \in 1..(i - 1) : list[j].mName # name].addr
    ELSE NULL

\* Screen::getMonitor(const QPoint&): the first monitor whose scaled bounding
\* rectangle contains pos, or nullptr
getMonitorAt(list, pos) ==
    IF \E i \in 1..Len(list) : RectContains(boundingRectangle(list[i], ScaleDen), pos)
    THEN list[CHOOSE i \in 1..Len(list) :
                /\ RectContains(boundingRectangle(list[i], ScaleDen), pos)
                /\ \A j \in 1..(i - 1) :
                      ~RectContains(boundingRectangle(list[j], ScaleDen), pos)].addr
    ELSE NULL

(***************************************************************************)
(* Faulty variants of the operations below.  Each property of the last     *)
(* section is also run with one operation replaced by such a variant, and  *)
(* has to fail then.                                                       *)
(***************************************************************************)
\* deleteMonitor that leaves the selection alone
DeleteMonitorKeepingSelection(list, sel, name) ==
    [list |-> SelectSeq(list, LAMBDA m : ~(m.mName = name)),
     sel |-> sel]

\* deleteMonitor that clears the selection only when it removes the selected monitor
DeleteMonitorDeselectingIfDeleted(list, sel, name) ==
    [list |-> SelectSeq(list, LAMBDA m : ~(m.mName = name)),
     sel |-> IF sel # NULL /\ \E i \in 1..Len(list) :
                                list[i].addr = sel /\ list[i].mName = name
             THEN NULL ELSE sel]

\* deleteMonitor that removes the first monitor when the name is in the list
DeleteFirstMonitor(list, sel, name) ==
    [list |-> IF \E i \in 1..Len(list) : list[i].mName = name THEN Tail(list) ELSE list,
     sel |-> NULL]

\* addMonitor that does not look for the name
AddMonitorUnchecked(list, sel, addr, name, xRes, yRes, xOff, yOff, horLetterBox, verLetterBox) ==
    [list |-> Append(list, Monitor(addr, name, xRes, yRes, xOff, yOff,
                                   horLetterBox, verLetterBox)),
     sel |-> NULL,
     ret |-> TRUE]

\* addMonitor that clears the selection before it looks for the name
AddMonitorDeselectingFirst(list, sel, addr, name, xRes, yRes, xOff, yOff, horLetterBox, verLetterBox) ==
    IF \E i \in 1..Len(list) : list[i].mName = name
    THEN [list |-> list, sel |-> NULL, ret |-> FALSE]
    ELSE [list |-> Append(list, Monitor(addr, name, xRes, yRes, xOff, yOff,
                                        horLetterBox, verLetterBox)),
          sel |-> NULL,
          ret |-> TRUE]

\* addMonitor that leaves the selection alone
AddMonitorKeepingSelection(list, sel, addr, name, xRes, yRes, xOff, yOff, horLetterBox, verLetterBox) ==
    IF \E i \in 1..Len(list) : list[i].mName = name
    THEN [list |-> list, sel |-> sel, ret |-> FALSE]
    ELSE [list |-> Append(list, Monitor(addr, name, xRes, yRes, xOff, yOff,
                                        horLetterBox, verLetterBox)),
          sel |-> sel,
          ret |-> TRUE]

\* toggleSingleMonitorSelection that only ever selects
ToggleSelectingOnly(list, sel, selection) ==
    [sel |-> getMonitorByName(list, selection), ret |-> TRUE]

\* removeAll that removes the first occurrence only
RemoveFirst(seq, a) ==
    IF \E k \in 1..Len(seq) : seq[k] = a
    THEN LET k == CHOOSE i \in 1..Len(seq) : seq[i] = a /\ \A j \in 1..(i - 1) : seq[j] # a
         IN  SubSeq(seq, 1, k - 1) \o SubSeq(seq, k + 1, Len(seq))
    ELSE seq

(***************************************************************************)
(* Screen: deleteMonitor, addMonitor, toggleSingleMonitorSelection.        *)
(***************************************************************************)
ScreenDeleteMonitor(list, sel, name) ==
    [list |-> SelectSeq(list, LAMBDA m : ~(m.mName = name)),
     sel |-> NULL]

\* addr is the address operator new gives the new list node
ScreenAddMonitor(list, sel, addr, name, xRes, yRes, xOff, yOff, horLetterBox, verLetterBox) ==
    IF monitorExists(list, name)
    THEN [list |-> list, sel |-> sel, ret |-> FALSE]
    ELSE [list |-> Append(list, Monitor(addr, name, xRes, yRes, xOff, yOff,
                                        horLetterBox, verLetterBox)),
          sel |-> NULL,
          ret |-> TRUE]

toggleSingleMonitorSelection(list, sel, selection) ==
    IF sel # NULL /\ Deref(list, sel).mName = selection
    THEN [sel |-> NULL, ret |-> FALSE]
    ELSE [sel |-> getMonitorByName(list, selection), ret |-> TRUE]

(***************************************************************************)
(* Screen::snap.  The thresholds .05 * width and .05 * height are doubles; *)
(* a comparison  v < .05 * W  of an int v is  ThresholdDen * v < W, and    *)
(* masterBounding.right() / mScale is ScaleDen * right (both exact in      *)
(* double arithmetic for the widget sizes used here).                      *)
(***************************************************************************)
SnapMainBorder(moved, master) ==
    LET W == RectWidth(master)
        H == RectHeight(master)
        r1 == IF ThresholdDen * moved.x1 < W THEN RectMoveLeft(moved, 0) ELSE moved
        r2 == IF ThresholdDen * r1.y1 < H THEN RectMoveTop(r1, 0) ELSE r1
        r3 == IF ThresholdDen * (ScaleDen * master.x2 - r2.x2) < W
              THEN RectMoveRight(r2, ScaleDen * master.x2) ELSE r2
        r4 == IF ThresholdDen * (ScaleDen * master.y2 - r3.y2) < H
              THEN RectMoveBottom(r3, ScaleDen * master.y2) ELSE r3
    IN  r4

\* a faulty iteration: a collision from the right puts the moved rectangle
\* on the neighbour's last column
SnapOtherOntoRightEdge(moved, other, master) ==
    LET otherRect == boundingRectangle(other, 1)
        otherTestRect == RectAdjusted(otherRect,
                                      TruncDiv(-RectWidth(master), 2 * ThresholdDen),
                                      TruncDiv(-RectHeight(master), 2 * ThresholdDen),
                                      TruncDiv(RectWidth(master), 2 * ThresholdDen),
                                      TruncDiv(RectHeight(master), 2 * ThresholdDen))
        intersection == RectIntersected(otherTestRect, moved)
    IN  IF ~RectIntersects(otherTestRect, moved) THEN moved
        ELSE IF RectHeight(intersection) > RectWidth(intersection)
        THEN (IF moved.x2 > otherRect.x2 THEN RectMoveLeft(moved, otherRect.x2)
              ELSE IF moved.x2 < otherRect.x2 THEN RectMoveRight(moved, otherRect.x1 - 0)
              ELSE moved)
        ELSE (IF moved.y1 < otherRect.y1 THEN RectMoveBottom(moved, otherRect.y1 - 0)
              ELSE IF moved.y1 > otherRect.y1 THEN RectMoveTop(moved, otherRect.y2 + 1)
              ELSE moved)

\* one iteration of the loop over the other monitors
SnapOther(moved, other, master) ==
    LET W == RectWidth(master)
        H == RectHeight(master)
        otherRect == boundingRectangle(other, 1)
        otherTestRect == RectAdjusted(otherRect,
                                      TruncDiv(-W, 2 * ThresholdDen),
                                      TruncDiv(-H, 2 * ThresholdDen),
                                      TruncDiv(W, 2 * ThresholdDen),
                                      TruncDiv(H, 2 * ThresholdDen))
        intersection == RectIntersected(otherTestRect, moved)
    IN  IF ~RectIntersects(otherTestRect, moved) THEN moved
        ELSE IF RectHeight(intersection) > RectWidth(intersection)
        THEN (IF moved.x2 > otherRect.x2 THEN RectMoveLeft(moved, otherRect.x2 + 1)
              ELSE IF moved.x2 < otherRect.x2 THEN RectMoveRight(moved, otherRect.x1 - 0)
              ELSE moved)
        ELSE (IF moved.y1 < otherRect.y1 THEN RectMoveBottom(moved, otherRect.y1 - 0)
              ELSE IF moved.y1 > otherRect.y1 THEN RectMoveTop(moved, otherRect.y2 + 1)
              ELSE moved)

RECURSIVE SnapOthers(_, _, _, _, _)
SnapOthers(list, i, name, moved, master) ==
    IF i > Len(list) THEN moved
    ELSE IF list[i].mName = name THEN SnapOthers(list, i + 1, name, moved, master)
    ELSE SnapOthers(list, i + 1, name, SnapOther(moved, list[i], master), master)

\* the position snap commits: the top left of the moved rectangle
SnapTarget(list, snapping, target, master) ==
    LET snappingRect == boundingRectangle(snapping, 1)
        moved0 == RectMoveTo(snappingRect, QPoint(ScaleDen * target.x, ScaleDen * target.y))
        moved1 == SnapMainBorder(moved0, master)
        moved2 == SnapOthers(list, 1, snapping.mName, moved1, master)
    IN  RectTopLeft(moved2)

\* the list after snap(*mon, target, source, bounding), mon a live node
snap(list, mon, target, master) ==
    LET i == IndexOfAddr(list, mon)
    IN  [list EXCEPT ![i] = setPosition(list[i], SnapTarget(list, list[i], target, master))]

moveMonitors(list, sel, mon, target, master) ==
    IF mon # NULL
    THEN [list |-> snap(list, mon, target, master), sel |-> mon]
    ELSE [list |-> list, sel |-> sel]

\* Screen::selectBorder: the draw colour of border `border` of every monitor named so
selectBorder(list, monitor, border, color) ==
    [i \in 1..Len(list) |->
        IF list[i].mName = monitor
        THEN CASE border = 0 -> [list[i] EXCEPT !.bottom.drawColor = color]
               [] border = 1 -> [list[i] EXCEPT !.right.drawColor = color]
               [] border = 2 -> [list[i] EXCEPT !.top.drawColor = color]
               [] border = 3 -> [list[i] EXCEPT !.left.drawColor = color]
        ELSE list[i]]

\* Screen::getBorder: <<monitor address, border index>> of the border hit, or
\* <<NULL, -1>>.  The loop goes on to the next monitor when a monitor contains
\* pos but none of its borders does.
RECURSIVE getBorderFrom(_, _, _)
getBorderFrom(list, i, pos) ==
    IF i > Len(list) THEN <<NULL, -1>>
    ELSE IF /\ RectContains(boundingRectangle(list[i], ScaleDen), pos)
            /\ \E b \in BorderIndex : RectContains(BorderQRect(MonitorBorder(list[i], b), ScaleDen), pos)
    THEN <<list[i].addr,
           CHOOSE b \in BorderIndex :
              /\ RectContains(BorderQRect(MonitorBorder(list[i], b), ScaleDen), pos)
              /\ \A c \in 0..(b - 1) :
                    ~RectContains(BorderQRect(MonitorBorder(list[i], c), ScaleDen), pos)>>
    ELSE getBorderFrom(list, i + 1, pos)

getBorder(list, pos) == getBorderFrom(list, 1, pos)

(***************************************************************************)
(* State.                                                                  *)
(***************************************************************************)
VARIABLES
    mMonitorList,               \* Screen: std::list<Monitor>, in list order
    mCurrentMonitorSelection,   \* Screen: Monitor*, an address or NULL
    mInteractionMode,           \* ScreenDisplayWidget
    mMouseMoved,                \* ScreenDisplayWidget
    mClickedMonitor,            \* ScreenDisplayWidget: Monitor*
    mBorders,                   \* ScreenDisplayWidget: QVector<const Border*> [4]
    mCurrentMode,               \* ScreenConfigLayout
    mLastSelectedMonitor,       \* ScreenConfigLayout: Monitor*
    buttons,                    \* ScreenConfigLayout: isEnabled() of the four buttons
    inputs,                     \* ScreenConfigLayout: text() of the seven line edits
    pointer,                    \* environment: the mouse over the display widget: button held,
                                \* position, moved since the button was pressed
    crashed,                    \* the process was aborted by a failed assert
    nEdits,                     \* environment: setter calls and text edits made so far
    nDrags,                     \* environment: drag steps made so far
    nClicks,                    \* environment: clicks handled so far
    calls                       \* history: the last call(s), for stating the properties

screenVars == <<mMonitorList, mCurrentMonitorSelection>>

widgetVars == <<mInteractionMode, mMouseMoved, mClickedMonitor, mBorders>>

shellVars == <<mCurrentMode, mLastSelectedMonitor, buttons, inputs>>

envVars == <<pointer, crashed, nEdits, nDrags, nClicks>>

vars == <<mMonitorList, mCurrentMonitorSelection, mInteractionMode, mMouseMoved,
          mClickedMonitor, mBorders, mCurrentMode, mLastSelectedMonitor, buttons, inputs,
          pointer, crashed, nEdits, nDrags, nClicks, calls>>

(***************************************************************************)
(* Inputs of the model: the names, numbers and points the environment      *)
(* passes in.                                                              *)
(***************************************************************************)
RECURSIVE NameX(_)
NameX(k) == IF k = 0 THEN <<"name">> ELSE Append(NameX(k - 1), "x")

\* the empty name, "name", "namex", ...
Names == {<<>>} \cup {NameX(k) : k \in 0..(MaxMonitors - 1)}

ResolutionValues == {1920, 960}

\* <<width, height>> of the monitors added directly
MonitorShapes == {<<1920, 1080>>}

\* where a drag step moves the pointer to
DragTargets == {QPoint(0, 0), QPoint(96, 54), QPoint(200, 0)}

OffsetValues == {0, 2000}

LetterboxValues == {0, 8}

\* this->rect() of the display widget: 400 x 300 pixels at (0, 0)
WidgetWidth == 400
WidgetHeight == 300
WidgetRect == QRectFromPointSize(QPoint(0, 0), WidgetWidth, WidgetHeight)

\* pointer positions on the display widget
Points == {QPoint(0, 0), QPoint(96, 54), QPoint(200, 0)}

NoBorders == [i \in BorderIndex |-> <<>>]

(***************************************************************************)
(* History of calls.  calls holds the last call; a call of the same kind   *)
(* that follows it directly is appended (at most two are kept).            *)
(***************************************************************************)
Call(op, name, arg, ret) ==
    [op |-> op, name |-> name, arg |-> arg, ret |-> ret,
     sel0 |-> mCurrentMonitorSelection, acc0 |-> NoBorders, col0 |-> lightGray]

\* a call only named in the history
Plain(op) ==
    [op |-> op, name |-> <<>>, arg |-> 0, ret |-> TRUE,
     sel0 |-> NULL, acc0 |-> NoBorders, col0 |-> lightGray]

Single(c) == <<c>>

Successive(c) ==
    IF /\ Len(calls) > 0
       /\ calls[Len(calls)].op = c.op
       /\ calls[Len(calls)].name = c.name
    THEN <<calls[Len(calls)], c>>
    ELSE <<c>>

Last == calls[Len(calls)]

(***************************************************************************)
(* Initial state: the constructors of ScreenConfigLayout,                  *)
(* ScreenDisplayWidget and Screen.  mClickedMonitor has no initializer.    *)
(***************************************************************************)
Number(v) == IF Wrapped(v) THEN <<"u", v>> ELSE <<"n", v>>

InitProgram ==
    /\ mMonitorList = <<>>
    /\ mCurrentMonitorSelection = NULL
    /\ mInteractionMode = "ConfigureMonitors"
    /\ mMouseMoved = FALSE
    /\ mBorders = NoBorders
    /\ mCurrentMode = "ConfigureMonitors"
    /\ mLastSelectedMonitor = NULL
    /\ buttons = [add |-> TRUE, delete |-> FALSE, prev |-> FALSE, next |-> TRUE]
    /\ inputs = [name |-> <<"name">>,
                 horRes |-> Number(1920), verRes |-> Number(1080),
                 xOff |-> Number(0), yOff |-> Number(0),
                 horLetterbox |-> Number(0), verLetterbox |-> Number(0)]
    /\ pointer = [held |-> FALSE, pos |-> QPoint(0, 0), moved |-> FALSE]
    /\ crashed = FALSE
    /\ nEdits = 0
    /\ nDrags = 0
    /\ nClicks = 0
    /\ calls = <<>>

\* the user's inputs so far leave room for one more
WithinBudget == nEdits + nDrags + nClicks < MaxInputs

\* the addresses a new list node may get: a free one.  Free addresses that
\* no pointer of the program still holds are interchangeable, and the least
\* of them stands for all
NewAddrs ==
    LET free == Addr \ LiveAddrs(mMonitorList)
        held == {mLastSelectedMonitor, mClickedMonitor}
                    \cup UNION {{mBorders[b][k][1] : k \in 1..Len(mBorders[b])} : b \in BorderIndex}
        fresh == free \ held
    IN  (free \cap held) \cup {a \in fresh : \A b \in fresh : a <= b}

\* addMonitor allocates a node only for a name that is not in the list
NewAddrsFor(name) == IF monitorExists(mMonitorList, name) THEN {NULL} ELSE NewAddrs

\* the values a read of the pointer p may give
ReadPointer(p) == IF p = Indeterminate THEN Addr \cup {NULL} ELSE {p}

\* mClickedMonitor holds whatever the memory held: the value is chosen
\* when it is first read
Init == InitProgram /\ mClickedMonitor = Indeterminate

(***************************************************************************)
(* The Wall used directly: the public methods of Screen and Monitor,       *)
(* called in any order with any arguments.                                 *)
(***************************************************************************)
AddMonitor ==
    \E name \in Names, shape \in MonitorShapes : \E a \in NewAddrsFor(name) :
        /\ monitorExists(mMonitorList, name) \/ Len(mMonitorList) < MaxMonitors
        /\ LET r == ScreenAddMonitor(mMonitorList, mCurrentMonitorSelection, a, name,
                                     shape[1], shape[2], 0, 0, 0, 0)
           IN  /\ mMonitorList' = r.list
               /\ mCurrentMonitorSelection' = r.sel
               /\ calls' = Single(Call("addMonitor", name, 0, r.ret))
        /\ UNCHANGED <<widgetVars, shellVars, envVars>>

DeleteMonitor ==
    \E name \in Names :
        /\ LET r == ScreenDeleteMonitor(mMonitorList, mCurrentMonitorSelection, name)
           IN  /\ mMonitorList' = r.list
               /\ mCurrentMonitorSelection' = r.sel
               /\ calls' = Single(Call("deleteMonitor", name, 0,
                                        Len(r.list) < Len(mMonitorList)))
        /\ UNCHANGED <<widgetVars, shellVars, envVars>>

ToggleSelection ==
    \E name \in Names :
        /\ LET r == toggleSingleMonitorSelection(mMonitorList, mCurrentMonitorSelection, name)
           IN  /\ mCurrentMonitorSelection' = r.sel
               /\ calls' = Successive(Call("toggleSelection", name, 0, r.ret))
        /\ UNCHANGED <<mMonitorList, widgetVars, shellVars, envVars>>

DeselectCurrent ==
    /\ mCurrentMonitorSelection' = NULL
    /\ calls' = Single(Plain("deselectCurrent"))
    /\ UNCHANGED <<mMonitorList, widgetVars, shellVars, envVars>>

\* a drag step: moveMonitors on the monitor under `from`, toward `target`
MoveMonitors ==
    \E from \in Points, target \in DragTargets :
        /\ nDrags < MaxDrags /\ WithinBudget
        /\ nDrags' = nDrags + 1
        /\ LET mon == getMonitorAt(mMonitorList, from)
               r == moveMonitors(mMonitorList, mCurrentMonitorSelection, mon, target, WidgetRect)
           IN  /\ mMonitorList' = r.list
               /\ mCurrentMonitorSelection' = r.sel
               /\ calls' = Single(Plain("moveMonitors"))
        /\ UNCHANGED <<widgetVars, shellVars, pointer, crashed, nEdits, nClicks>>

\* one of the six setters of a Monitor of the list
ApplySetter(m, which, v) ==
    CASE which = "setWidth" -> setWidth(m, v)
      [] which = "setHeight" -> setHeight(m, v)
      [] which = "setXOffset" -> setXOffset(m, v)
      [] which = "setYOffset" -> setYOffset(m, v)
      [] which = "setVerticalLetterboxBarWidth" -> setVerticalLetterboxBarWidth(m, v)
      [] which = "setHorizontalLetterboxBarHeight" -> setHorizontalLetterboxBarHeight(m, v)

SetterValues(which) ==
    IF which \in {"setWidth", "setHeight"} THEN ResolutionValues
    ELSE IF which \in {"setXOffset", "setYOffset"} THEN OffsetValues
    ELSE LetterboxValues

Setters == {"setWidth", "setHeight", "setXOffset", "setYOffset",
            "setVerticalLetterboxBarWidth", "setHorizontalLetterboxBarHeight"}

SetParameter ==
    \E i \in 1..Len(mMonitorList), which \in Setters :
        \E v \in SetterValues(which) :
            /\ nEdits < MaxEdits /\ WithinBudget
            /\ nEdits' = nEdits + 1
            /\ mMonitorList' = [mMonitorList EXCEPT ![i] = ApplySetter(mMonitorList[i], which, v)]
            /\ calls' = Single(Plain("setter"))
            /\ UNCHANGED <<mCurrentMonitorSelection, widgetVars, shellVars, pointer, crashed,
                           nDrags, nClicks>>

Next ==
    \/ AddMonitor
    \/ DeleteMonitor
    \/ ToggleSelection
    \/ DeselectCurrent
    \/ MoveMonitors
    \/ SetParameter

Spec == Init /\ [][Next]_vars

(***************************************************************************)
(* The Wall used directly, for the geometry of placing and dragging:       *)
(* addMonitor with all of its arguments, and drag steps toward targets     *)
(* that bring the dragged Monitor next to the widget's border and next to  *)
(* the other Monitor from each of the four sides.                          *)
(***************************************************************************)
\* <<xRes, yRes>>
PlaceShapes == {<<1920, 1080>>, <<960, 1080>>, <<1920, 16>>}

\* <<xOff, yOff>>
PlaceOffsets == {<<0, 0>>, <<2000, 0>>, <<0, 1200>>}

\* <<horLetterBox, verLetterBox>>
PlaceLetterboxes == {<<0, 0>>, <<8, 8>>}

\* the pointer positions of the drag steps
SnapTargets == {QPoint(0, 0), QPoint(191, 0), QPoint(10, 0), QPoint(0, 15), QPoint(0, 107)}

PlaceMonitor ==
    \E name \in Names \ {<<>>}, shape \in PlaceShapes, off \in PlaceOffsets, lb \in PlaceLetterboxes :
        \E a \in NewAddrsFor(name) :
            /\ monitorExists(mMonitorList, name) \/ Len(mMonitorList) < MaxMonitors
            /\ LET r == ScreenAddMonitor(mMonitorList, mCurrentMonitorSelection, a, name,
                                         shape[1], shape[2], off[1], off[2], lb[1], lb[2])
               IN  /\ mMonitorList' = r.list
                   /\ mCurrentMonitorSelection' = r.sel
                   /\ calls' = Single(Call("addMonitor", name, 0, r.ret))
            /\ UNCHANGED <<widgetVars, shellVars, envVars>>

\* a drag step on the i-th Monitor of the list; the history keeps the name
\* of the dragged Monitor, the target and (as ret) the list before the step
DragMonitor ==
    \E i \in 1..Len(mMonitorList), target \in SnapTargets :
        /\ nDrags < MaxDrags
        /\ nDrags' = nDrags + 1
        /\ LET r == moveMonitors(mMonitorList, mCurrentMonitorSelection, mMonitorList[i].addr,
                                 target, WidgetRect)
           IN  /\ mMonitorList' = r.list
               /\ mCurrentMonitorSelection' = r.sel
               /\ calls' = Single(Call("moveMonitors", mMonitorList[i].mName, target, mMonitorList))
        /\ UNCHANGED <<widgetVars, shellVars, pointer, crashed, nEdits, nClicks>>

NextSnap ==
    \/ PlaceMonitor
    \/ DragMonitor

SpecSnap == Init /\ [][NextSnap]_vars

(***************************************************************************)
(* The Wall with up to three Monitors of one shape, for the order of the   *)
(* loop of snap over the other Monitors.  No Monitor is deleted, so every  *)
(* list node gets a fresh address.                                         *)
(***************************************************************************)
MaxOrdered == 3         \* monitors in mMonitorList at a time, under SpecOrder

OrderNames == {NameX(k) : k \in 0..(MaxOrdered - 1)}

PlaceOrdered ==
    \E name \in OrderNames, off \in PlaceOffsets :
        /\ monitorExists(mMonitorList, name) \/ Len(mMonitorList) < MaxOrdered
        /\ LET r == ScreenAddMonitor(mMonitorList, mCurrentMonitorSelection,
                                     Len(mMonitorList) + 1, name, 1920, 1080, off[1], off[2], 0, 0)
           IN  /\ mMonitorList' = r.list
               /\ mCurrentMonitorSelection' = r.sel
               /\ calls' = Single(Call("addMonitor", name, 0, r.ret))
        /\ UNCHANGED <<widgetVars, shellVars, envVars>>

NextOrder ==
    \/ PlaceOrdered
    \/ DragMonitor

SpecOrder == Init /\ [][NextOrder]_vars

(***************************************************************************)
(* ScreenConfigLayout: the slots, as operators on the state they touch.    *)
(* A line edit's text is <<"n", v>>, the decimal numeral of the int v, or  *)
(* <<"u", v>>, the numeral QString::number prints for a size_t that        *)
(* wrapped around (2^64 + v, v < 0), which toInt() cannot parse.           *)
(***************************************************************************)
\* QString::toInt(): 0 when the text is no int
ToInt(t) == IF t[1] = "n" THEN t[2] ELSE 0

\* updateCurrentMonitor, for the texts `in`; a write through a dangling
\* mLastSelectedMonitor reaches no monitor of the list, unless the node's
\* address is in use again
updateCurrentMonitor(list, lastSel, in) ==
    IF lastSel = NULL \/ lastSel \notin LiveAddrs(list) THEN list
    ELSE LET i == IndexOfAddr(list, lastSel)
             m1 == setWidth(list[i], ToInt(in.horRes))
             m2 == setHeight(m1, ToInt(in.verRes))
             m3 == setXOffset(m2, ToInt(in.xOff))
             m4 == setYOffset(m3, ToInt(in.yOff))
             m5 == setHorizontalLetterboxBarHeight(m4, ToInt(in.horLetterbox))
             m6 == setVerticalLetterboxBarWidth(m5, ToInt(in.verLetterbox))
         IN  [list EXCEPT ![i] = m6]

\* QLineEdit::setText on one of the six number inputs: textChanged, and with
\* it updateCurrentMonitor, only when the text differs.  st = [list, inputs]
SetText(st, lastSel, field, text) ==
    IF st.inputs[field] = text THEN st
    ELSE LET in == [st.inputs EXCEPT ![field] = text]
         IN  [list |-> updateCurrentMonitor(st.list, lastSel, in), inputs |-> in]

\* the six number inputs in the order readMonitorConfigToUi sets them
NumberInputs == <<"horRes", "verRes", "xOff", "yOff", "horLetterbox", "verLetterbox">>

\* the Monitor getter whose value readMonitorConfigToUi writes to the input
InputValue(m, field) ==
    CASE field = "horRes" -> m.mWidth
      [] field = "verRes" -> m.mHeight
      [] field = "xOff" -> m.mXOffset
      [] field = "yOff" -> m.mYOffset
      [] field = "horLetterbox" -> m.mHorizontalLetterboxBarHeight
      [] field = "verLetterbox" -> m.mVerticalLetterboxBarWidth

\* the setText calls from the k-th number input on: each reads the monitor
\* as the slots run by the calls before it left it
RECURSIVE SetNumberInputs(_, _, _, _)
SetNumberInputs(st, lastSel, mon, k) ==
    IF k > Len(NumberInputs) THEN st
    ELSE SetNumberInputs(SetText(st, lastSel, NumberInputs[k],
                                 Number(InputValue(Deref(st.list, mon), NumberInputs[k]))),
                         lastSel, mon, k + 1)

readMonitorConfigToUi(list, in, lastSel, mon) ==
    IF mon = NULL \/ mon \notin LiveAddrs(list) THEN [list |-> list, inputs |-> in]
    ELSE SetNumberInputs([list |-> list,
                          inputs |-> [in EXCEPT !.name = Deref(list, mon).mName]],
                         lastSel, mon, 1)

\* faulty variant: configureForMode that leaves both mode buttons enabled
ModeButtonsBothEnabled(b, mode) == [b EXCEPT !.prev = TRUE, !.next = TRUE]

\* configureForMode: the enabling of the two mode buttons
ModeButtons(b, mode) ==
    [b EXCEPT !.prev = (ModeIndex(mode) # ModeIndex("First_INVALID") + 1),
              !.next = (ModeIndex(mode) # ModeIndex("Last_INVALID") - 1)]

\* onMonitorDeselected / onMonitorSelected: the enabling of add and delete
SelectionButtons(b, selected) == [b EXCEPT !.add = ~selected, !.delete = selected]

(***************************************************************************)
(* The program driven by its user.  While a mouse button is held over the  *)
(* display widget the widget has the mouse grab: no button is clicked and  *)
(* no text is edited until the release.  A handler that runs after the     *)
(* process was aborted does not exist.                                     *)
(***************************************************************************)
Idle == ~crashed /\ ~pointer.held

ConfigVisible == mCurrentMode = "ConfigureMonitors"

OnNextModeButton ==
    /\ Idle
    /\ buttons.next
    /\ LET mode == InteractionMode[ModeIndex(mCurrentMode) + 1]
       IN  IF mode = "Last_INVALID"
           THEN /\ crashed' = TRUE
                /\ UNCHANGED <<mCurrentMode, mInteractionMode, buttons>>
           ELSE /\ mCurrentMode' = mode
                /\ mInteractionMode' = mode
                /\ buttons' = ModeButtons(buttons, mode)
                /\ UNCHANGED crashed
    /\ calls' = <<>>
    /\ UNCHANGED <<screenVars, mMouseMoved, mClickedMonitor, mBorders, mLastSelectedMonitor,
                   inputs, pointer, nEdits, nDrags, nClicks>>

OnPrevModeButton ==
    /\ Idle
    /\ buttons.prev
    /\ LET mode == InteractionMode[ModeIndex(mCurrentMode) - 1]
       IN  IF mode = "First_INVALID"
           THEN /\ crashed' = TRUE
                /\ UNCHANGED <<mCurrentMode, mInteractionMode, buttons>>
           ELSE /\ mCurrentMode' = mode
                /\ mInteractionMode' = mode
                /\ buttons' = ModeButtons(buttons, mode)
                /\ UNCHANGED crashed
    /\ calls' = <<>>
    /\ UNCHANGED <<screenVars, mMouseMoved, mClickedMonitor, mBorders, mLastSelectedMonitor,
                   inputs, pointer, nEdits, nDrags, nClicks>>

OnAddButton ==
    /\ Idle
    /\ ConfigVisible
    /\ buttons.add
    /\ LET horRes == ToInt(inputs.horRes)
           verRes == ToInt(inputs.verRes)
       IN  IF horRes = 0 \/ verRes = 0
           THEN /\ calls' = <<>>
                /\ UNCHANGED <<screenVars, inputs>>
           ELSE \E a \in NewAddrsFor(inputs.name) :
                   /\ \/ monitorExists(mMonitorList, inputs.name)
                      \/ Len(mMonitorList) < MaxMonitors /\ Len(inputs.name) <= MaxMonitors
                   /\ LET r == ScreenAddMonitor(mMonitorList, mCurrentMonitorSelection, a,
                                                inputs.name, horRes, verRes,
                                                ToInt(inputs.xOff), ToInt(inputs.yOff),
                                                ToInt(inputs.horLetterbox),
                                                ToInt(inputs.verLetterbox))
                      IN  /\ mMonitorList' = r.list
                          /\ mCurrentMonitorSelection' = r.sel
                          /\ inputs' = IF r.ret
                                       THEN [inputs EXCEPT !.name = Append(inputs.name, "x")]
                                       ELSE inputs
                          /\ calls' = <<>>
    /\ UNCHANGED <<widgetVars, mCurrentMode, mLastSelectedMonitor, buttons, envVars>>

OnDeleteButton ==
    /\ Idle
    /\ ConfigVisible
    /\ buttons.delete
    /\ IF mCurrentMonitorSelection = NULL
       THEN \* assert(selected) fails
            /\ crashed' = TRUE
            /\ calls' = <<>>
            /\ UNCHANGED screenVars
       ELSE \E del \in BOOLEAN :
               LET name == Deref(mMonitorList, mCurrentMonitorSelection).mName
                   r == ScreenDeleteMonitor(mMonitorList, mCurrentMonitorSelection, name)
               IN  /\ mMonitorList' = IF del THEN r.list ELSE mMonitorList
                   /\ mCurrentMonitorSelection' = IF del THEN r.sel ELSE mCurrentMonitorSelection
                   /\ calls' = <<>>
                   /\ UNCHANGED crashed
    /\ UNCHANGED <<widgetVars, shellVars, pointer, nEdits, nDrags, nClicks>>

TypedValues(field) ==
    IF field \in {"horRes", "verRes"} THEN ResolutionValues
    ELSE IF field \in {"xOff", "yOff"} THEN OffsetValues
    ELSE LetterboxValues

\* the user replaces the text of one of the six number inputs
EditNumber ==
    \E field \in {NumberInputs[k] : k \in 1..Len(NumberInputs)} :
        \E v \in TypedValues(field) :
            /\ Idle
            /\ ConfigVisible
            /\ nEdits < MaxEdits /\ WithinBudget
            /\ inputs[field] # Number(v)
            /\ LET st == SetText([list |-> mMonitorList, inputs |-> inputs],
                                 mLastSelectedMonitor, field, Number(v))
               IN  /\ mMonitorList' = st.list
                   /\ inputs' = st.inputs
            /\ nEdits' = nEdits + 1
            /\ calls' = <<>>
            /\ UNCHANGED <<mCurrentMonitorSelection, widgetVars, mCurrentMode,
                           mLastSelectedMonitor, buttons, pointer, crashed, nDrags, nClicks>>

\* the user replaces the text of the name input (no slot is connected to it)
EditName ==
    \E name \in Names :
        /\ Idle
        /\ ConfigVisible
        /\ nEdits < MaxEdits /\ WithinBudget
        /\ inputs.name # name
        /\ inputs' = [inputs EXCEPT !.name = name]
        /\ nEdits' = nEdits + 1
        /\ calls' = <<>>
        /\ UNCHANGED <<screenVars, widgetVars, mCurrentMode, mLastSelectedMonitor, buttons,
                       pointer, crashed, nDrags, nClicks>>

MousePressEvent ==
    \E p \in Points :
        /\ Idle
        /\ pointer' = [held |-> TRUE, pos |-> p, moved |-> FALSE]
        /\ IF mInteractionMode # "ConfigureMonitors"
           THEN UNCHANGED <<mClickedMonitor, mMouseMoved>>
           ELSE /\ mClickedMonitor' = getMonitorAt(mMonitorList, p)
                /\ mMouseMoved' = FALSE
        \* the history keeps successive classification steps only
        /\ calls' = IF Len(calls) > 0 /\ calls[Len(calls)].op = "classify" THEN calls ELSE <<>>
        /\ UNCHANGED <<screenVars, mInteractionMode, mBorders, shellVars, crashed, nEdits,
                       nDrags, nClicks>>

MouseMoveEvent ==
    \E p \in DragTargets :
        /\ ~crashed
        /\ pointer.held
        /\ p # pointer.pos
        /\ pointer' = [held |-> TRUE, pos |-> p, moved |-> TRUE]
        /\ IF mInteractionMode # "ConfigureMonitors"
           THEN UNCHANGED <<screenVars, mMouseMoved, inputs, crashed, nDrags, calls>>
           ELSE \E clicked \in ReadPointer(mClickedMonitor) :
                /\ clicked # NULL => nDrags < MaxDrags /\ WithinBudget
                /\ nDrags' = IF clicked # NULL THEN nDrags + 1 ELSE nDrags
                /\ mMouseMoved' = TRUE
                /\ IF clicked \notin LiveAddrs(mMonitorList) \cup {NULL}
                   THEN \* a wild pointer is dereferenced
                        /\ crashed' = TRUE
                        /\ UNCHANGED <<screenVars, inputs>>
                   ELSE LET r == moveMonitors(mMonitorList, mCurrentMonitorSelection,
                                              clicked, p, WidgetRect)
                            \* emit onMonitorMoved(mClickedMonitor)
                            st == readMonitorConfigToUi(r.list, inputs, mLastSelectedMonitor,
                                                        clicked)
                        IN  /\ mMonitorList' = st.list
                            /\ mCurrentMonitorSelection' = r.sel
                            /\ inputs' = st.inputs
                            /\ UNCHANGED crashed
                /\ calls' = <<>>
        /\ UNCHANGED <<mInteractionMode, mClickedMonitor, mBorders, mCurrentMode,
                       mLastSelectedMonitor, buttons, nEdits, nClicks>>

\* the colour set by handleClick for the mode
SelectionColor(mode) ==
    CASE mode = "SelectBottomBorder" -> "darkRed"
      [] mode = "SelectRightBorder" -> "darkBlue"
      [] mode = "SelectTopBorder" -> "darkGreen"
      [] mode = "SelectLeftBorder" -> "darkMagenta"

RemoveAll(seq, a) == SelectSeq(seq, LAMBDA e : e # a)

\* handleClick in ConfigureMonitors mode
HandleClickConfigure(position) ==
    LET selected == getMonitorAt(mMonitorList, position)
    IN  IF selected = NULL
        THEN \* deselectCurrent(); emit onMonitorDeSelected()
             /\ mCurrentMonitorSelection' = NULL
             /\ buttons' = SelectionButtons(buttons, FALSE)
             /\ mLastSelectedMonitor' = NULL
             /\ calls' = <<>>
             /\ UNCHANGED <<mMonitorList, inputs, mBorders>>
        ELSE LET name == Deref(mMonitorList, selected).mName
                 r == toggleSingleMonitorSelection(mMonitorList, mCurrentMonitorSelection, name)
             IN  /\ mCurrentMonitorSelection' = r.sel
                 /\ calls' = <<>>
                 /\ UNCHANGED mBorders
                 /\ IF r.ret
                    THEN \* emit onMonitorSelected(selected)
                         LET st == readMonitorConfigToUi(mMonitorList, inputs, selected, selected)
                         IN  /\ buttons' = SelectionButtons(buttons, TRUE)
                             /\ mLastSelectedMonitor' = selected
                             /\ mMonitorList' = st.list
                             /\ inputs' = st.inputs
                    ELSE \* emit onMonitorDeSelected()
                         /\ buttons' = SelectionButtons(buttons, FALSE)
                         /\ mLastSelectedMonitor' = NULL
                         /\ UNCHANGED <<mMonitorList, inputs>>

\* a faulty handleClick: the click also deselects, as a click on no Monitor
\* does in ConfigureMonitors mode
HandleClickBorderDeselecting(position) ==
    LET hit == getBorder(mMonitorList, position)
        selBorder == hit[1]
        selBorderIndex == hit[2]
    IN  IF selBorderIndex < 0 \/ Deref(mMonitorList, selBorder).mName = <<>>
        THEN /\ mCurrentMonitorSelection' = NULL
             /\ UNCHANGED <<mMonitorList, mBorders, nClicks, calls>>
        ELSE LET selMonitor == Deref(mMonitorList, selBorder).mName
                 selectionColor == SelectionColor(mInteractionMode)
                 drawColor == MonitorBorder(Deref(mMonitorList, selBorder),
                                            selBorderIndex).drawColor
                 c == [op |-> "classify",
                       name |-> <<selBorder, selBorderIndex, mInteractionMode>>,
                       arg |-> 0, ret |-> drawColor # selectionColor,
                       sel0 |-> NULL, acc0 |-> mBorders, col0 |-> drawColor]
             IN  /\ IF drawColor # selectionColor
                    THEN /\ Len(mBorders[selBorderIndex]) < MaxBorders
                         /\ mMonitorList' = selectBorder(mMonitorList, selMonitor,
                                                         selBorderIndex, selectionColor)
                         /\ mBorders' = [mBorders EXCEPT ![selBorderIndex] =
                                                             Append(@, <<selBorder, selBorderIndex>>)]
                    ELSE /\ mMonitorList' = selectBorder(mMonitorList, selMonitor,
                                                         selBorderIndex, lightGray)
                         /\ mBorders' = [mBorders EXCEPT ![selBorderIndex] =
                                                             RemoveAll(@, <<selBorder, selBorderIndex>>)]
                 /\ calls' = Successive(c)
                 /\ WithinBudget
                 /\ nClicks' = nClicks + 1
                 /\ mCurrentMonitorSelection' = NULL

\* handleClick in a Select<X>Border mode: the classification step
HandleClickBorder(position) ==
    LET hit == getBorder(mMonitorList, position)
        selBorder == hit[1]
        selBorderIndex == hit[2]
    IN  IF selBorderIndex < 0 \/ Deref(mMonitorList, selBorder).mName = <<>>
        THEN UNCHANGED <<screenVars, mBorders, nClicks, calls>>
        ELSE LET selMonitor == Deref(mMonitorList, selBorder).mName
                 selectionColor == SelectionColor(mInteractionMode)
                 drawColor == MonitorBorder(Deref(mMonitorList, selBorder),
                                            selBorderIndex).drawColor
                 c == [op |-> "classify",
                       name |-> <<selBorder, selBorderIndex, mInteractionMode>>,
                       arg |-> 0, ret |-> drawColor # selectionColor,
                       sel0 |-> NULL, acc0 |-> mBorders, col0 |-> drawColor]
             IN  /\ IF drawColor # selectionColor
                    THEN /\ Len(mBorders[selBorderIndex]) < MaxBorders
                         /\ mMonitorList' = selectBorder(mMonitorList, selMonitor,
                                                         selBorderIndex, selectionColor)
                         /\ mBorders' = [mBorders EXCEPT ![selBorderIndex] =
                                                             Append(@, <<selBorder, selBorderIndex>>)]
                    ELSE /\ mMonitorList' = selectBorder(mMonitorList, selMonitor,
                                                         selBorderIndex, lightGray)
                         /\ mBorders' = [mBorders EXCEPT ![selBorderIndex] =
                                                             RemoveAll(@, <<selBorder, selBorderIndex>>)]
                 /\ calls' = Successive(c)
                 /\ WithinBudget
                 /\ nClicks' = nClicks + 1
                 /\ UNCHANGED mCurrentMonitorSelection

MouseReleaseEvent ==
    /\ ~crashed
    /\ pointer.held
    /\ pointer' = [held |-> FALSE, pos |-> QPoint(0, 0), moved |-> FALSE]
    /\ mClickedMonitor' = NULL
    /\ IF mMouseMoved
       THEN UNCHANGED <<screenVars, mBorders, mLastSelectedMonitor, buttons, inputs, nClicks,
                        calls>>
       ELSE IF mInteractionMode = "ConfigureMonitors"
       THEN /\ HandleClickConfigure(pointer.pos)
            /\ WithinBudget
            /\ nClicks' = nClicks + 1
       ELSE /\ HandleClickBorder(pointer.pos)
            /\ UNCHANGED <<mLastSelectedMonitor, buttons, inputs>>
    /\ UNCHANGED <<mInteractionMode, mMouseMoved, mCurrentMode, crashed, nEdits, nDrags>>

\* what the Border* e points to, a border of a monitor of the list
BorderAt(list, e) == MonitorBorder(Deref(list, e[1]), e[2])

\* ScreenDisplayWidget::getResultingBorderConfiguration: for each i the
\* snapshots are appended to bVec, a copy of result.at(i); result is returned
getResultingBorderConfiguration(list, borders) ==
    LET result == [i \in BorderIndex |-> <<>>]
        bVec == [i \in BorderIndex |->
                    result[i] \o [k \in 1..Len(borders[i]) |-> BorderAt(list, borders[i][k])]]
    IN  result

\* the owner of the display widget asks for the result.  Copying *b for a b
\* that points into a freed list node may abort the process
GetResultingBorderConfiguration ==
    /\ Idle
    /\ \/ /\ calls' = <<[op |-> "getResultingBorderConfiguration", name |-> <<>>, arg |-> 0,
                          ret |-> getResultingBorderConfiguration(mMonitorList, mBorders),
                          sel0 |-> NULL, acc0 |-> mBorders, col0 |-> lightGray]>>
          /\ UNCHANGED crashed
       \/ /\ \E b \in BorderIndex : \E k \in 1..Len(mBorders[b]) :
                 mBorders[b][k][1] \notin LiveAddrs(mMonitorList)
          /\ crashed' = TRUE
          /\ calls' = <<>>
    /\ UNCHANGED <<screenVars, widgetVars, shellVars, pointer, nEdits, nDrags, nClicks>>

NextUI ==
    \/ OnNextModeButton
    \/ OnPrevModeButton
    \/ OnAddButton
    \/ OnDeleteButton
    \/ EditNumber
    \/ EditName
    \/ MousePressEvent
    \/ MouseMoveEvent
    \/ MouseReleaseEvent
    \/ GetResultingBorderConfiguration

SpecUI == Init /\ [][NextUI]_vars

(***************************************************************************)
(* Properties of the Wall, checked under Spec.                             *)
(***************************************************************************)
NamesOf(list) == {list[i].mName : i \in 1..Len(list)}

RangeOf(list) == {list[i] : i \in 1..Len(list)}

\* the selected monitor's name is n
SelectedIs(list, sel, n) == sel # NULL /\ Deref(list, sel).mName = n

\* C1: addMonitor with a name already in the collection returns false and
\* changes neither the monitor list (members, order, parameters) nor the
\* current selection.
C1_AddDuplicateChangesNothing ==
    [][(Last'.op = "addMonitor" /\ monitorExists(mMonitorList, Last'.name))
        => /\ Last'.ret = FALSE
           /\ mMonitorList' = mMonitorList
           /\ mCurrentMonitorSelection' = mCurrentMonitorSelection]_vars

\* a duplicate add was rejected while a monitor was selected
C1_Witness ==
    /\ Len(calls) > 0
    /\ Last.op = "addMonitor"
    /\ Last.ret = FALSE
    /\ Last.name \in NamesOf(mMonitorList)
    /\ mCurrentMonitorSelection # NULL

\* C2: addMonitor with a fresh name returns true, makes the list one longer
\* (the new monitor, of that name, at the end), leaves every monitor that was
\* there unchanged and leaves no selection.
C2_AddFreshAppendsAndDeselects ==
    [][(Last'.op = "addMonitor" /\ ~monitorExists(mMonitorList, Last'.name))
        => /\ Last'.ret = TRUE
           /\ Len(mMonitorList') = Len(mMonitorList) + 1
           /\ \A i \in 1..Len(mMonitorList) : mMonitorList'[i] = mMonitorList[i]
           /\ mMonitorList'[Len(mMonitorList')].mName = Last'.name
           /\ mCurrentMonitorSelection' = NULL]_vars

\* a second monitor was added while the first was selected
C2_Witness ==
    /\ Len(calls) > 0
    /\ Last.op = "addMonitor"
    /\ Last.ret = TRUE
    /\ Last.sel0 # NULL
    /\ Len(mMonitorList) >= 2
    /\ mCurrentMonitorSelection = NULL

\* C3: in every reachable state the names of the monitors of the list are
\* pairwise distinct.
C3_NamesDistinct ==
    \A i, j \in 1..Len(mMonitorList) :
        i # j => mMonitorList[i].mName # mMonitorList[j].mName

\* two monitors are in the list and an add of one of their names has just been tried
C3_Witness ==
    /\ Len(mMonitorList) >= 2
    /\ Len(calls) > 0
    /\ Last.op = "addMonitor"
    /\ Last.name \in NamesOf(mMonitorList)
    /\ Last.ret = FALSE

\* C5 as stated: deleteMonitor(name) clears the selection when name is the
\* selected monitor and leaves the selection as it was otherwise.
C5_DeleteKeepsOtherSelection ==
    [][(Last'.op = "deleteMonitor")
        => IF SelectedIs(mMonitorList, mCurrentMonitorSelection, Last'.name)
           THEN mCurrentMonitorSelection' = NULL
           ELSE mCurrentMonitorSelection' = mCurrentMonitorSelection]_vars

\* C5 amended: after deleteMonitor(name) the Wall has no selection, whichever
\* monitor was selected and whether or not a monitor was removed.
C5_DeleteAlwaysDeselects ==
    (Len(calls) > 0 /\ Last.op = "deleteMonitor") => mCurrentMonitorSelection = NULL

\* a monitor other than the selected one was deleted: the monitor that was
\* selected is still in the list
C5_Witness ==
    /\ Len(calls) > 0
    /\ Last.op = "deleteMonitor"
    /\ Last.ret = TRUE
    /\ Last.sel0 \in LiveAddrs(mMonitorList)

\* C6: deleteMonitor(name) removes the monitor of that name and nothing else:
\* the monitors left are exactly those of other names, each unchanged; when
\* no monitor has the name the list is unchanged.
C6_DeleteRemovesExactlyNamed ==
    [][(Last'.op = "deleteMonitor")
        => /\ RangeOf(mMonitorList') =
                 {m \in RangeOf(mMonitorList) : m.mName # Last'.name}
           /\ Len(mMonitorList') = Cardinality(RangeOf(mMonitorList'))
           /\ (~monitorExists(mMonitorList, Last'.name) => mMonitorList' = mMonitorList)]_vars

\* a monitor was removed and another one stayed
C6_Witness ==
    /\ Len(calls) > 0
    /\ Last.op = "deleteMonitor"
    /\ Last.ret = TRUE
    /\ Len(mMonitorList) >= 1

\* two calls of toggleSelection in succession, on the name of a monitor of the list
ToggledTwice ==
    /\ Len(calls) = 2
    /\ calls[1].op = "toggleSelection"
    /\ calls[2].op = "toggleSelection"
    /\ calls[1].name = calls[2].name
    /\ calls[1].name \in NamesOf(mMonitorList)

\* C7 as stated: two calls of toggleSelection(name) in succession return true
\* then false and leave the selection as it was before the first call.
C7_ToggleTwiceRestores ==
    ToggledTwice
    => /\ calls[1].ret = TRUE
       /\ calls[2].ret = FALSE
       /\ mCurrentMonitorSelection = calls[1].sel0

\* C7 amended: with no monitor selected beforehand the two calls return true
\* then false and leave no selection; with that monitor selected they return
\* false then true and it is selected again; with another monitor selected
\* they return true then false and leave no selection.
C7_ToggleTwiceByCase ==
    ToggledTwice
    => IF calls[1].sel0 = NULL
       THEN /\ calls[1].ret = TRUE /\ calls[2].ret = FALSE
            /\ mCurrentMonitorSelection = NULL
       ELSE IF Deref(mMonitorList, calls[1].sel0).mName = calls[1].name
       THEN /\ calls[1].ret = FALSE /\ calls[2].ret = TRUE
            /\ mCurrentMonitorSelection = calls[1].sel0
       ELSE /\ calls[1].ret = TRUE /\ calls[2].ret = FALSE
            /\ mCurrentMonitorSelection = NULL

\* toggled twice while a different monitor was selected beforehand
C7_Witness ==
    /\ ToggledTwice
    /\ calls[1].sel0 # NULL
    /\ Deref(mMonitorList, calls[1].sel0).mName # calls[1].name

\* C8: toggleSelection with a name that matches no monitor returns false and
\* leaves the selection unchanged.
C8_ToggleUnknownIsNoOp ==
    (/\ Len(calls) > 0
     /\ Last.op = "toggleSelection"
     /\ Last.name \notin NamesOf(mMonitorList))
    => /\ Last.ret = FALSE
       /\ mCurrentMonitorSelection = Last.sel0

(***************************************************************************)
(* Properties of the whole program, checked under SpecUI.                  *)
(***************************************************************************)
\* C4: in every reachable state the current selection is none or a monitor
\* that is in the list.
C4_SelectionIsLive ==
    mCurrentMonitorSelection = NULL \/ mCurrentMonitorSelection \in LiveAddrs(mMonitorList)

\* the selected monitor was deleted: the shell still remembers the node, the
\* Wall has no selection
C4_Witness ==
    /\ mLastSelectedMonitor # NULL
    /\ mLastSelectedMonitor \notin LiveAddrs(mMonitorList)
    /\ mCurrentMonitorSelection = NULL

\* the Border* values of accumulator b
Accumulated(acc, b) == {acc[b][k] : k \in 1..Len(acc[b])}

\* the accumulators without the Border* e
Without(acc, e) == [b \in BorderIndex |-> SelectSeq(acc[b], LAMBDA x : x # e)]

\* the wall-edge class bound to a Select<X>Border mode
ClassOfMode(mode) ==
    CASE mode = "SelectBottomBorder" -> BOTTOM
      [] mode = "SelectRightBorder" -> RIGHT
      [] mode = "SelectTopBorder" -> TOP
      [] mode = "SelectLeftBorder" -> LEFT

\* the edge the last classification step was about, and its colour now
LastEdge == <<Last.name[1], Last.name[2]>>

LastEdgeColor == MonitorBorder(Deref(mMonitorList, Last.name[1]), Last.name[2]).drawColor

\* the last two handled clicks were on the same edge, in the same mode, with
\* nothing but pointer events in between
ClassifiedTwice ==
    /\ Len(calls) = 2
    /\ calls[1].op = "classify"
    /\ calls[2].op = "classify"

\* C9 as stated: two classification steps in succession on the same edge in
\* the same mode leave the edge unassigned and in no accumulator, and the
\* accumulators as they were before the first of the two.
C9_ClassifyTwiceRestores ==
    ClassifiedTwice
    => /\ LastEdgeColor = lightGray
       /\ \A b \in BorderIndex : LastEdge \notin Accumulated(mBorders, b)
       /\ mBorders = calls[1].acc0

\* C9 amended: when the edge did not have the mode's class before the first
\* step (it was unassigned or had another class), the two steps leave it
\* unassigned and in no accumulator, and the accumulators are those before
\* the first step without the references to the edge; when it had the
\* mode's class, the two steps leave it with that class and last in the
\* accumulator of its index, the other references as before.
C9_ClassifyTwiceByCase ==
    ClassifiedTwice
    => IF calls[1].col0 # SelectionColor(Last.name[3])
       THEN /\ LastEdgeColor = lightGray
            /\ \A b \in BorderIndex : LastEdge \notin Accumulated(mBorders, b)
            /\ mBorders = Without(calls[1].acc0, LastEdge)
       ELSE /\ LastEdgeColor = SelectionColor(Last.name[3])
            /\ mBorders = [Without(calls[1].acc0, LastEdge) EXCEPT
                               ![Last.name[2]] = Append(@, LastEdge)]

\* an unassigned edge was classified twice while another edge was assigned:
\* the accumulators are as before
C9_Witness ==
    /\ ClassifiedTwice
    /\ calls[1].col0 = lightGray
    /\ mBorders = calls[1].acc0
    /\ mBorders # NoBorders

\* C10: a classification step in mode Select<X>Border on an edge that does
\* not have class X leaves the edge in the accumulator of class X and in no
\* other accumulator.
C10_ClickAssignsToModeClass ==
    (/\ Len(calls) > 0
     /\ Last.op = "classify"
     /\ Last.col0 # SelectionColor(Last.name[3]))
    => /\ LastEdge \in Accumulated(mBorders, ClassOfMode(Last.name[3]))
       /\ \A b \in BorderIndex \ {ClassOfMode(Last.name[3])} :
              LastEdge \notin Accumulated(mBorders, b)

\* C11: in every reachable state each Border* occurs at most once in the
\* four accumulators taken together.
C11_EdgeAtMostOnce ==
    \A b, c \in BorderIndex :
        \A k \in 1..Len(mBorders[b]) :
            \A l \in 1..Len(mBorders[c]) :
                mBorders[b][k] = mBorders[c][l] => (b = c /\ k = l)

\* C12: getResultingBorderConfiguration returns, for each class i, the
\* snapshots of the edges of accumulator i, in the accumulator's order: list
\* i is as long as accumulator i.
C12_ResultListsAccumulators ==
    (Len(calls) > 0 /\ Last.op = "getResultingBorderConfiguration")
    => \A i \in BorderIndex :
          /\ Len(Last.ret[i]) = Len(mBorders[i])
          /\ \A k \in 1..Len(mBorders[i]) :
                mBorders[i][k][1] \in LiveAddrs(mMonitorList)
                => Last.ret[i][k] = BorderAt(mMonitorList, mBorders[i][k])

\* C13: an advance moves the mode one step towards SelectLeftBorder and a
\* retreat one step towards ConfigureMonitors, neither aborts, and no other
\* step changes the mode; the mode is never a sentinel; at SelectLeftBorder
\* the advance button and at ConfigureMonitors the retreat button is
\* disabled (and only there), so that a further advance or retreat does not
\* happen and the mode stays.
C13_ModeStepper ==
    [][/\ OnNextModeButton
          => ~crashed' /\ ModeIndex(mCurrentMode') = ModeIndex(mCurrentMode) + 1
       /\ OnPrevModeButton
          => ~crashed' /\ ModeIndex(mCurrentMode') = ModeIndex(mCurrentMode) - 1
       /\ ~(OnNextModeButton \/ OnPrevModeButton) => mCurrentMode' = mCurrentMode
       /\ mCurrentMode' \notin {"First_INVALID", "Last_INVALID"}
       /\ mInteractionMode' = mCurrentMode'
       /\ buttons'.next = (mCurrentMode' # "SelectLeftBorder")
       /\ buttons'.prev = (mCurrentMode' # "ConfigureMonitors")]_vars

\* back at ConfigureMonitors with an edge that was classified in
\* SelectLeftBorder mode: four advances and four retreats were made
C13_Witness ==
    /\ mCurrentMode = "ConfigureMonitors"
    /\ ~buttons.prev
    /\ buttons.next
    /\ \E i \in 1..Len(mMonitorList) : \E b \in BorderIndex :
          MonitorBorder(mMonitorList[i], b).drawColor = "darkMagenta"

(***************************************************************************)
(* Properties of placing and dragging, checked under SpecSnap.             *)
(***************************************************************************)
\* the last step was a drag step
Dragged == Len(calls) > 0 /\ Last.op = "moveMonitors"

\* the list before the last drag step, and the position of the dragged
\* Monitor in it (a drag step keeps the order of the list)
ListBefore == Last.ret

DraggedIndex == CHOOSE i \in 1..Len(ListBefore) : ListBefore[i].mName = Last.name

\* the rectangle the last drag step asked for, after the snap to the
\* widget's border and to the neighbours before the i-th
RectReaching(i) ==
    LET snappingRect == boundingRectangle(ListBefore[DraggedIndex], 1)
        raw == QPoint(ScaleDen * Last.arg.x, ScaleDen * Last.arg.y)
    IN  SnapOthers(SubSeq(ListBefore, 1, i - 1), 1, Last.name,
                   SnapMainBorder(RectMoveTo(snappingRect, raw), WidgetRect), WidgetRect)

\* the snap zone of a Monitor: its bounding rectangle grown by 2.5 % of the
\* widget's size on every side
SnapZone(other) ==
    LET b == boundingRectangle(other, 1)
    IN  [x1 |-> b.x1 - WidgetWidth \div 40, y1 |-> b.y1 - WidgetHeight \div 40,
         x2 |-> b.x2 + WidgetWidth \div 40, y2 |-> b.y2 + WidgetHeight \div 40]

\* the pixels rectangles a and b share, per axis
SharedColumns(a, b) == Min2(a.x2, b.x2) - Max2(a.x1, b.x1) + 1

SharedRows(a, b) == Min2(a.y2, b.y2) - Max2(a.y1, b.y1) + 1

SharePixel(a, b) == SharedColumns(a, b) > 0 /\ SharedRows(a, b) > 0

\* the dragged rectangle r collides with the i-th Monitor of the list
\* horizontally, coming from the right
CollidesFromRight(r, i) ==
    /\ SharePixel(SnapZone(ListBefore[i]), r)
    /\ SharedRows(SnapZone(ListBefore[i]), r) > SharedColumns(SnapZone(ListBefore[i]), r)
    /\ r.x2 > boundingRectangle(ListBefore[i], 1).x2

\* the last drag step ran into the i-th Monitor from the right, and into no
\* later Monitor of the list after being put flush against the i-th
SnappedFromRight(i) ==
    /\ Dragged
    /\ i \in 1..Len(ListBefore)
    /\ ListBefore[i].mName # Last.name
    /\ CollidesFromRight(RectReaching(i), i)
    /\ LET b == boundingRectangle(ListBefore[i], 1)
           flush == RectMoveLeft(RectReaching(i), b.x1 + RectWidth(b))
       IN  \A j \in (i + 1)..Len(ListBefore) :
               ListBefore[j].mName # Last.name => ~SharePixel(SnapZone(ListBefore[j]), flush)

\* C14: when a drag step collides horizontally with a neighbour and the
\* dragged rectangle's right edge is beyond the neighbour's right edge (and
\* no later neighbour collides), the committed left edge of the dragged
\* Monitor is the neighbour's left edge plus the neighbour's width
C14_SnapFromRight ==
    \A i \in 1..MaxMonitors :
        SnappedFromRight(i) =>
            LET b == boundingRectangle(ListBefore[i], 1)
            IN  boundingRectangle(mMonitorList[DraggedIndex], 1).x1 = b.x1 + RectWidth(b)

\* a 960x1080 Monitor dragged to x = 1910 next to a 1920x1080 Monitor at
\* (0, 0) ends with its left edge at 1920
C14_Witness ==
    \E i \in 1..MaxMonitors :
        /\ SnappedFromRight(i)
        /\ ListBefore[i].mWidth = 1920 /\ ListBefore[i].mXOffset = 0
        /\ ListBefore[i].mVerticalLetterboxBarWidth = 0
        /\ ListBefore[DraggedIndex].mWidth = 960
        /\ ScaleDen * Last.arg.x = 1910
        /\ boundingRectangle(mMonitorList[DraggedIndex], 1).x1 = 1920

(***************************************************************************)
(* Properties of the edge geometries.                                      *)
(***************************************************************************)
\* a Monitor constructed now with the six parameters of m
FreshlyConstructed(m) ==
    Monitor(m.addr, m.mName, m.mWidth, m.mHeight, m.mXOffset, m.mYOffset,
            m.mVerticalLetterboxBarWidth, m.mHorizontalLetterboxBarHeight)

\* C15: the four edge geometries of every Monitor equal the geometries of a
\* Monitor freshly constructed with its six current parameters, whatever
\* setters and moves were applied to it, and one more updateGeometry changes
\* nothing (checked under Spec)
C15_GeometryFromParameters ==
    \A i \in 1..Len(mMonitorList) :
        /\ \A b \in BorderIndex :
               MonitorBorder(mMonitorList[i], b).geometry
                   = MonitorBorder(FreshlyConstructed(mMonitorList[i]), b).geometry
        /\ updateGeometry(mMonitorList[i]) = mMonitorList[i]

\* a Monitor that was given another width by a setter and another position
\* by a drag step
C15_Witness ==
    /\ nEdits > 0 /\ nDrags > 0
    /\ \E i \in 1..Len(mMonitorList) :
           /\ mMonitorList[i].mWidth = 960
           /\ mMonitorList[i].mXOffset = 960 /\ mMonitorList[i].mYOffset = 540
           /\ mMonitorList[i].right.geometry = Geometry(16, 1048, 1904, 556)

\* the columns and the rows of the pixels a geometry covers, as
\* <<first, one past the last>>; a size that wrapped around is unsigned and
\* reaches as far as any coordinate of the model
FarAway == 1000000

Columns(g) == <<g.xOffset, IF Wrapped(g.width) THEN FarAway ELSE g.xOffset + g.width>>

Rows(g) == <<g.yOffset, IF Wrapped(g.height) THEN FarAway ELSE g.yOffset + g.height>>

\* the visible centre region of a Monitor: the non-letterboxed area shrunk
\* by BORDER_WIDTH on each side
CenterColumns(m) ==
    <<m.mXOffset + m.mVerticalLetterboxBarWidth + BORDER_WIDTH,
      m.mXOffset + m.mWidth - m.mVerticalLetterboxBarWidth - BORDER_WIDTH>>

CenterRows(m) ==
    <<m.mYOffset + m.mHorizontalLetterboxBarHeight + BORDER_WIDTH,
      m.mYOffset + m.mHeight - m.mHorizontalLetterboxBarHeight - BORDER_WIDTH>>

\* two ranges <<first, one past the last>> have a member in common
Meet(a, b) == Max2(a[1], b[1]) < Min2(a[2], b[2])

EdgeMeetsCenter(m, b) ==
    /\ Meet(Columns(MonitorBorder(m, b).geometry), CenterColumns(m))
    /\ Meet(Rows(MonitorBorder(m, b).geometry), CenterRows(m))

\* C16: in every reachable state every Monitor's left and right edges are 16
\* wide, its top and bottom edges are 16 high, and no edge shares a pixel
\* with the Monitor's visible centre region
C16_EdgesAroundCenter ==
    \A i \in 1..Len(mMonitorList) :
        /\ mMonitorList[i].left.geometry.width = 16
        /\ mMonitorList[i].right.geometry.width = 16
        /\ mMonitorList[i].top.geometry.height = 16
        /\ mMonitorList[i].bottom.geometry.height = 16
        /\ \A b \in BorderIndex : ~EdgeMeetsCenter(mMonitorList[i], b)

\* a letterboxed Monitor with a centre region, after a drag step
C16_Witness ==
    /\ Dragged
    /\ mMonitorList[DraggedIndex].mVerticalLetterboxBarWidth = 8
    /\ mMonitorList[DraggedIndex].mHorizontalLetterboxBarHeight = 8
    /\ Meet(CenterColumns(mMonitorList[DraggedIndex]), CenterColumns(mMonitorList[DraggedIndex]))
    /\ Meet(CenterRows(mMonitorList[DraggedIndex]), CenterRows(mMonitorList[DraggedIndex]))
    /\ mMonitorList[DraggedIndex].top.geometry = Geometry(1904, 16, 1920, 0)

(***************************************************************************)
(* Properties of the pointer handlers, checked under SpecUI.               *)
(***************************************************************************)
\* the button is released where it was pressed, with no move in between,
\* in a Select<X>Border mode, over an edge of a named Monitor
ClickOnEdge ==
    /\ MouseReleaseEvent
    /\ mInteractionMode \notin {"ConfigureMonitors"}
    /\ ~pointer.moved
    /\ getBorder(mMonitorList, pointer.pos)[2] >= 0
    /\ Deref(mMonitorList, getBorder(mMonitorList, pointer.pos)[1]).mName # <<>>

\* the classification step ran on the edge under the pointer
ClassifiedEdgeUnderPointer ==
    /\ nClicks' = nClicks + 1
    /\ Len(calls') > 0
    /\ calls'[Len(calls')].op = "classify"
    /\ calls'[Len(calls')].name[1] = getBorder(mMonitorList, pointer.pos)[1]
    /\ calls'[Len(calls')].name[2] = getBorder(mMonitorList, pointer.pos)[2]

\* C17: in every Select<X>Border mode a press followed by a release at the
\* same point, with no move in between, runs the classification step on the
\* edge under the point, whatever pointer events happened earlier
C17_ClickAlwaysClassifies == [][ClickOnEdge => ClassifiedEdgeUnderPointer]_vars

\* the last drag step, with exactly one other Monitor on the Wall (the
\* i-th), applied a collision correction against it: one of the four moves
\* of the loop body of snap
CorrectedAgainst(i) ==
    /\ Dragged
    /\ Len(ListBefore) = 2
    /\ i \in 1..2
    /\ ListBefore[i].mName # Last.name
    /\ LET r == RectReaching(i)
           zone == SnapZone(ListBefore[i])
           b == boundingRectangle(ListBefore[i], 1)
       IN  /\ SharePixel(zone, r)
           /\ IF SharedRows(zone, r) > SharedColumns(zone, r)
              THEN r.x2 # b.x2
              ELSE r.y1 # b.y1

\* C18: with exactly one other Monitor on the Wall, after a drag step whose
\* snap applied a collision correction against it, the dragged Monitor's
\* bounding rectangle shares no pixel with the other Monitor's
C18_CorrectionLeavesNoOverlap ==
    \A i \in 1..2 :
        CorrectedAgainst(i) =>
            ~SharePixel(boundingRectangle(mMonitorList[DraggedIndex], 1),
                        boundingRectangle(mMonitorList[i], 1))

\* C19: after every drag step the dragged Monitor's bounding rectangle has
\* left >= 0 and top >= 0, and its stored xOffset and yOffset are
\* non-negative integers that did not wrap around
C19_DragKeepsOffsetsNonNegative ==
    Dragged =>
        /\ boundingRectangle(mMonitorList[DraggedIndex], 1).x1 >= 0
        /\ boundingRectangle(mMonitorList[DraggedIndex], 1).y1 >= 0
        /\ ~Wrapped(mMonitorList[DraggedIndex].mXOffset)
        /\ ~Wrapped(mMonitorList[DraggedIndex].mYOffset)

\* C20: for every Monitor with width # 0 and height # 0, whatever its
\* letterbox sizes, the heights of the left and right edges are
\* h - 32 - 2*hlb, within 0..h, and the widths of the top and bottom edges
\* are w - 2*vlb, within 0..w: no size wrapped around
C20_EdgeSizesDoNotUnderflow ==
    \A i \in 1..Len(mMonitorList) :
        LET m == mMonitorList[i]
        IN  (m.mWidth # 0 /\ m.mHeight # 0) =>
                /\ m.left.geometry.height = m.mHeight - 32 - 2 * m.mHorizontalLetterboxBarHeight
                /\ m.right.geometry.height = m.left.geometry.height
                /\ m.left.geometry.height \in 0..m.mHeight
                /\ m.top.geometry.width = m.mWidth - 2 * m.mVerticalLetterboxBarWidth
                /\ m.bottom.geometry.width = m.top.geometry.width
                /\ m.top.geometry.width \in 0..m.mWidth

(***************************************************************************)
(* Properties of the order of the Monitors, checked under SpecOrder.       *)
(***************************************************************************)
\* the lists that hold the Monitors of list in any order
Orders(list) ==
    LET n == Len(list)
        bijections == {f \in [1..n -> 1..n] : \A i, j \in 1..n : f[i] = f[j] => i = j}
    IN  {[i \in 1..n |-> list[f[i]]] : f \in bijections}

\* C21: the position a drag step commits does not depend on the order in
\* which the Monitors were added: snap gives the same position for every
\* order of the same Monitors, the same dragged Monitor and the same target
C21_SnapIgnoresOrder ==
    Dragged =>
        \A list \in Orders(ListBefore) :
            SnapTarget(list, ListBefore[DraggedIndex], Last.arg, WidgetRect)
                = RectTopLeft(boundingRectangle(mMonitorList[DraggedIndex], 1))

(***************************************************************************)
(* Properties of the hit test, checked under SpecUI.                        *)
(***************************************************************************)
\* the hit test as stated: the first Monitor, in list order, whose scaled
\* bounding rectangle contains pos, with the first of its edges, in the
\* order bottom, right, top, left, that contains pos; <<NULL, -1>> when no
\* Monitor contains pos or that Monitor has no such edge
HitTestEdge(list, pos) ==
    LET containing == {i \in 1..Len(list) : RectContains(boundingRectangle(list[i], ScaleDen), pos)}
        first == CHOOSE i \in containing : \A j \in containing : i <= j
        edges == {b \in BorderIndex :
                      RectContains(BorderQRect(MonitorBorder(list[first], b), ScaleDen), pos)}
    IN  IF containing = {} \/ edges = {} THEN <<NULL, 0 - 1>>
        ELSE <<list[first].addr, CHOOSE b \in edges : \A c \in edges : b <= c>>

\* a release that mouseReleaseEvent handles as a click, in a Select<X>Border
\* mode
BorderModeClick ==
    /\ MouseReleaseEvent
    /\ mInteractionMode \notin {"ConfigureMonitors"}
    /\ ~mMouseMoved

\* C22: the hit test of a click takes the first Monitor, in list order, whose
\* bounding rectangle contains the point, and the first of its edges (bottom,
\* right, top, left) that contains the point; when that Monitor has no such
\* edge, or no Monitor contains the point, the click classifies nothing
C22_ClickHitsFirstMonitorOnly ==
    [][BorderModeClick =>
          IF HitTestEdge(mMonitorList, pointer.pos)[2] < 0
          THEN mBorders' = mBorders /\ mMonitorList' = mMonitorList
          ELSE Deref(mMonitorList, HitTestEdge(mMonitorList, pointer.pos)[1]).mName # <<>>
                  => /\ Len(calls') > 0
                     /\ calls'[Len(calls')].op = "classify"
                     /\ calls'[Len(calls')].name[1] = HitTestEdge(mMonitorList, pointer.pos)[1]
                     /\ calls'[Len(calls')].name[2] = HitTestEdge(mMonitorList, pointer.pos)[2]]_vars

(***************************************************************************)
(* Properties of the shell's buttons and references, checked under SpecUI. *)
(***************************************************************************)
\* C23: whenever the handler onDeleteButton runs, the Wall has a current
\* selection, so its assertion does not fail: the delete button is enabled
\* only while currentlySelectedMonitor() is not null
C23_DeleteHasSelection ==
    [][/\ OnDeleteButton => mCurrentMonitorSelection # NULL
       /\ buttons'.delete /\ ~crashed' => mCurrentMonitorSelection' # NULL]_vars

\* the name, the address and the six parameters of every Monitor of the list
Parameters(list) ==
    [i \in 1..Len(list) |->
        <<list[i].addr, list[i].mName, list[i].mWidth, list[i].mHeight,
          list[i].mXOffset, list[i].mYOffset,
          list[i].mVerticalLetterboxBarWidth, list[i].mHorizontalLetterboxBarHeight>>]

\* the four edge geometries of every Monitor of the list
Geometries(list) ==
    [i \in 1..Len(list) |-> [b \in BorderIndex |-> MonitorBorder(list[i], b).geometry]]

\* C24: in every Select<X>Border mode no pointer event (press, move, release)
\* changes the position or another parameter of a Monitor, or the Wall's
\* current selection
C24_BorderModesMoveNothing ==
    [][(/\ mInteractionMode \notin {"ConfigureMonitors"}
        /\ MousePressEvent \/ MouseMoveEvent \/ MouseReleaseEvent)
          => /\ Parameters(mMonitorList') = Parameters(mMonitorList)
             /\ Geometries(mMonitorList') = Geometries(mMonitorList)
             /\ mCurrentMonitorSelection' = mCurrentMonitorSelection]_vars

\* a click classified an edge of a Monitor that was dragged before, while
\* the Wall has a selection
C24_Witness ==
    /\ mInteractionMode \notin {"ConfigureMonitors"}
    /\ mCurrentMonitorSelection # NULL
    /\ nDrags > 0
    /\ Len(calls) > 0 /\ Last.op = "classify" /\ ~pointer.held

\* the draw colours (the class markers) of the four edges of a Monitor
Markers(m) == [b \in BorderIndex |-> MonitorBorder(m, b).drawColor]

\* C25: the marker of an edge starts unassigned (light gray) and changes
\* only in the classification step of a click in a Select<X>Border mode:
\* every other step (add, selection, drag, text edit, mode change, delete of
\* another Monitor) leaves the marker of every edge that exists before and
\* after it unchanged
C25_MarkersChangeOnlyByClassification ==
    [][/\ \A j \in 1..Len(mMonitorList') :
              mMonitorList'[j].addr \notin LiveAddrs(mMonitorList)
                  => Markers(mMonitorList'[j]) = [b \in BorderIndex |-> lightGray]
       /\ ~BorderModeClick =>
              \A i \in 1..Len(mMonitorList), j \in 1..Len(mMonitorList') :
                  mMonitorList[i].addr = mMonitorList'[j].addr
                      => Markers(mMonitorList'[j]) = Markers(mMonitorList[i])]_vars

\* a Monitor with a classified edge is being dragged, after a second
\* Monitor was added
C25_Witness ==
    /\ mInteractionMode = "ConfigureMonitors"
    /\ pointer.held /\ pointer.moved /\ nDrags > 0
    /\ Len(mMonitorList) = 2
    /\ \E i \in 1..Len(mMonitorList) :
           /\ mMonitorList[i].mXOffset # 0
           /\ \E b \in BorderIndex : Markers(mMonitorList[i])[b] # lightGray

\* C26: in every reachable state every edge reference held in an accumulator
\* points into a Monitor that is still in the list, so that
\* getResultingBorderConfiguration never reads an edge of a deleted Monitor
C26_AccumulatedEdgesAreLive ==
    \A b \in BorderIndex : \A k \in 1..Len(mBorders[b]) :
        mBorders[b][k][1] \in LiveAddrs(mMonitorList)

\* C27: in every reachable state mLastSelectedMonitor, the target of
\* updateCurrentMonitor, is null or points to a Monitor that is still in the
\* list; after the selected Monitor was deleted it is null
C27_LastSelectedIsLive ==
    mLastSelectedMonitor = NULL \/ mLastSelectedMonitor \in LiveAddrs(mMonitorList)

\* C28: handling one pointer move in ConfigureMonitors mode, with the UI
\* sync it triggers, changes only the xOffset and yOffset of the Monitor
\* being dragged: its other parameters and all parameters of every other
\* Monitor, also of one selected by an earlier click, stay as they were
C28_DragMovesOnlyTheDragged ==
    [][(/\ MouseMoveEvent
        /\ mInteractionMode = "ConfigureMonitors"
        /\ mClickedMonitor \in LiveAddrs(mMonitorList))
          => /\ Len(mMonitorList') = Len(mMonitorList)
             /\ \A i \in 1..Len(mMonitorList) :
                    IF mMonitorList[i].addr = mClickedMonitor
                    THEN /\ mMonitorList'[i].mWidth = mMonitorList[i].mWidth
                         /\ mMonitorList'[i].mHeight = mMonitorList[i].mHeight
                         /\ mMonitorList'[i].mVerticalLetterboxBarWidth
                                = mMonitorList[i].mVerticalLetterboxBarWidth
                         /\ mMonitorList'[i].mHorizontalLetterboxBarHeight
                                = mMonitorList[i].mHorizontalLetterboxBarHeight
                    ELSE Parameters(mMonitorList')[i] = Parameters(mMonitorList)[i]]_vars

\* C29: dragging a Monitor does not change the Wall's current selection: a
\* pointer move leaves mCurrentMonitorSelection as it was, so that a Monitor
\* that was not selected is still not selected after it was dragged, and a
\* click on it then selects it
C29_DragKeepsSelection ==
    [][(MouseMoveEvent /\ ~crashed')
          => mCurrentMonitorSelection' = mCurrentMonitorSelection]_vars

====
